---- MODULE Spec2Model ----
(***************************************************************************)
(* Model of datacake-rpc's handler registry and type-erased dispatch       *)
(* (src/datacake-rpc/src/handler.rs, src/datacake-rpc/src/lib.rs).         *)
(*                                                                         *)
(* Strings are sequences of byte values.  A u64 (and so a HandlerKey) is a *)
(* tuple of four 16-bit limbs, least significant first, because TLC's      *)
(* integers are 32 bits wide.                                              *)
(***************************************************************************)
EXTENDS Integers, Sequences, FiniteSets, TLC

\* ------------------------------------------------------------------------
\* lib.rs: sanitise, to_uri_path, hash
\* ------------------------------------------------------------------------

\* The characters of lib.rs:136 and lib.rs:140.
Slash == 47
Lt == 60
Gt == 62
Dash == 45

\* str::replace('<', "-"): '>' is kept.
sanitise_lt_only(parameter) ==
    [i \in 1..Len(parameter) |->
        IF parameter[i] = Lt THEN Dash ELSE parameter[i]]

\* str::replace(['<', '>'], "-"): every '<' and every '>' becomes "-",
\* every other character is kept, in order.
sanitise(parameter) ==
    [i \in 1..Len(parameter) |->
        IF parameter[i] = Lt \/ parameter[i] = Gt THEN Dash ELSE parameter[i]]

\* format!("/{}/{}", sanitise(service), sanitise(path))
to_uri_path(service, path) ==
    <<Slash>> \o sanitise(service) \o <<Slash>> \o sanitise(path)

\* --- 64-bit words: four 16-bit limbs, least significant first -------------
Limb == 256 * 256

RECURSIVE XorInt(_, _)
XorInt(a, b) ==
    IF a = 0 THEN b
    ELSE IF b = 0 THEN a
    ELSE ((a + b) % 2) + 2 * XorInt(a \div 2, b \div 2)

\* Byte j of a string, zero past its end.
ByteAt(bytes, j) == IF j <= Len(bytes) THEN bytes[j] ELSE 0

\* The little-endian u64 of up to 8 bytes (missing bytes are zero).
U64FromBytesLE(bytes) ==
    <<ByteAt(bytes, 1) + 256 * ByteAt(bytes, 2),
      ByteAt(bytes, 3) + 256 * ByteAt(bytes, 4),
      ByteAt(bytes, 5) + 256 * ByteAt(bytes, 6),
      ByteAt(bytes, 7) + 256 * ByteAt(bytes, 8)>>

Xor64(a, b) ==
    <<XorInt(a[1], b[1]), XorInt(a[2], b[2]),
      XorInt(a[3], b[3]), XorInt(a[4], b[4])>>

\* wrapping_add: limb-wise with carry, the carry out of the top limb dropped.
Add64(a, b) ==
    LET s1 == a[1] + b[1]
        s2 == a[2] + b[2] + (s1 \div Limb)
        s3 == a[3] + b[3] + (s2 \div Limb)
        s4 == a[4] + b[4] + (s3 \div Limb)
    IN  <<s1 % Limb, s2 % Limb, s3 % Limb, s4 % Limb>>

\* 2^k, 0 <= k <= 16.
Pow2(k) ==
    <<1, 2, 4, 8, 16, 32, 64, 128, 256, 512, 1024, 2048, 4096, 8192, 16384,
      32768, 65536>>[k + 1]

\* One limb of a rotation by k bits, 0 <= k < 16: the low bits of lo moved
\* up by k, and the top k bits of the limb below it.
RotlLimb(lo, below, k) ==
    ((lo * Pow2(k)) % Limb) + (below \div Pow2(16 - k))

\* rotate_left by k bits, 0 <= k < 16.
RotlSmall(a, k) ==
    <<RotlLimb(a[1], a[4], k), RotlLimb(a[2], a[1], k),
      RotlLimb(a[3], a[2], k), RotlLimb(a[4], a[3], k)>>

\* rotate_left by 16 bits: the limbs move up by one.
Rotl16(a) == <<a[4], a[1], a[2], a[3]>>

\* rotate_left by n bits, 0 <= n < 64.
Rotl64(a, n) ==
    LET q == n \div 16
        r == RotlSmall(a, n % 16)
    IN  IF q = 0 THEN r
        ELSE IF q = 1 THEN Rotl16(r)
        ELSE IF q = 2 THEN Rotl16(Rotl16(r))
        ELSE Rotl16(Rotl16(Rotl16(r)))

\* --- hash: DefaultHasher::new() is SipHash-1-3 with the key (0, 0) ---------
\* "somepseudorandomlygeneratedbytes", the initial state for k0 = k1 = 0.
SipInit ==
    [v0 |-> U64FromBytesLE(<<117, 101, 115, 112, 101, 109, 111, 115>>),
     v1 |-> U64FromBytesLE(<<109, 111, 100, 110, 97, 114, 111, 100>>),
     v2 |-> U64FromBytesLE(<<97, 114, 101, 110, 101, 103, 121, 108>>),
     v3 |-> U64FromBytesLE(<<115, 101, 116, 121, 98, 100, 101, 116>>)]

SipRound(s) ==
    LET a0 == Add64(s.v0, s.v1)
        a1 == Xor64(Rotl64(s.v1, 13), a0)
        b0 == Rotl64(a0, 32)
        a2 == Add64(s.v2, s.v3)
        a3 == Xor64(Rotl64(s.v3, 16), a2)
        c0 == Add64(b0, a3)
        c3 == Xor64(Rotl64(a3, 21), c0)
        c2 == Add64(a2, a1)
        c1 == Xor64(Rotl64(a1, 17), c2)
    IN  [v0 |-> c0, v1 |-> c1, v2 |-> Rotl64(c2, 32), v3 |-> c3]

\* F applied to the value of v, which is computed once however often F
\* uses it.
Then(v, F(_)) == CHOOSE r \in {F(x) : x \in {v}} : TRUE

\* One message word: v3 ^= m; one compression round; v0 ^= m.
SipWord(s, m) ==
    Then(SipRound([s EXCEPT !.v3 = Xor64(s.v3, m)]),
         LAMBDA t : [t EXCEPT !.v0 = Xor64(t.v0, m)])

\* write(): every full 8-byte word of the data, in order.
RECURSIVE SipBlocks(_, _, _)
SipBlocks(s, data, from) ==
    IF from + 7 > Len(data) THEN s
    ELSE Then(SipWord(s, U64FromBytesLE(SubSeq(data, from, from + 7))),
              LAMBDA t : SipBlocks(t, data, from + 8))

\* The last word: the bytes after the last full word, and the length of the
\* data in the top byte.
SipTail(data) ==
    LET n == Len(data)
    IN  U64FromBytesLE([j \in 1..8 |->
            IF j <= n % 8 THEN data[n - (n % 8) + j]
            ELSE IF j = 8 THEN n % 256 ELSE 0])

\* d_rounds
RECURSIVE SipRounds(_, _)
SipRounds(s, n) ==
    IF n = 0 THEN s
    ELSE Then(SipRound(s), LAMBDA t : SipRounds(t, n - 1))

\* finish(): the last word, then v2 ^= 0xff and three finalisation rounds.
SipFinish(s, data) ==
    Then(SipWord(s, SipTail(data)),
         LAMBDA t : Then(
            SipRounds([t EXCEPT !.v2 = Xor64(t.v2, U64FromBytesLE(<<255>>))], 3),
            LAMBDA f : Xor64(Xor64(f.v0, f.v1), Xor64(f.v2, f.v3))))

SipHash13(data) ==
    Then(SipBlocks(SipInit, data, 1), LAMBDA s : SipFinish(s, data))

\* <str as Hash>::hash writes the bytes of the string and then 0xff.
HashOfStr(v) == SipHash13(v \o <<255>>)

\* The keys of a process: 1 for the server's, 2 for the client's.
SeedOf(process) == U64FromBytesLE(<<IF process = "server" THEN 1 ELSE 2>>)

\* RandomState::new().build_hasher(): SipHash keyed with the random keys of
\* the process, the first of them stepped on every call.
RandomStateHasher(process, nth) ==
    LET k0 == Add64(SeedOf(process), U64FromBytesLE(<<nth>>))
        k1 == SeedOf(process)
    IN  [v0 |-> Xor64(SipInit.v0, k0), v1 |-> Xor64(SipInit.v1, k1),
         v2 |-> Xor64(SipInit.v2, k0), v3 |-> Xor64(SipInit.v3, k1)]

\* DefaultHasher::new(), as the nth hasher a process creates: the keys are
\* (0, 0) in every process and on every call.
DefaultHasherNew(process, nth) == SipInit

\* lib.rs hash() on a string, as the nth evaluation made by a process.
hash_in(process, nth, v) ==
    Then(SipBlocks(DefaultHasherNew(process, nth), v \o <<255>>, 1),
         LAMBDA t : SipFinish(t, v \o <<255>>))

\* ------------------------------------------------------------------------
\* Bounds and inputs
\* ------------------------------------------------------------------------

\* add_handler calls made during the registration phase.
MaxAdds == 2

\* The longest service name and the longest handler path hashed, and the
\* characters they are made of: '<', '>', 'a' and ' '.
MaxServiceLen == 1
MaxPathLen == 2
Alphabet == {Lt, Gt, 97, 32}

RECURSIVE Strings(_)
Strings(n) ==
    IF n = 0 THEN {<<>>}
    ELSE LET shorter == Strings(n - 1)
         IN  shorter \cup {Append(x, ch) : x \in shorter, ch \in Alphabet}

\* The processes that compute HandlerKeys, and the evaluations each makes:
\* the server at registration and again at dispatch, the client once.
Processes == {"server", "client"}
EvalSlots == {<<"server", 1>>, <<"server", 2>>, <<"client", 1>>}

\* The calls in flight at the same time: two tasks of the server.
Calls == {"call1", "call2"}

\* Option<T>
None == <<>>
Some(v) == <<v>>

\* Result<T, Status>
Ok(v) == [ok |-> TRUE, val |-> v]
Err(status) == [ok |-> FALSE, status |-> status]

\* The message types the service implements Handler for, and the service
\* names a registry is built for.  "V<A>" and "V-A-" are different paths with
\* the same sanitised form.
MsgTypes == {"MyMessage", "MyOtherMessage", "Ping"}
ServiceNames == {<<69, 60, 84, 62>>}

\* Handler::<Msg>::path(): the name of the message type, or an override.
path(Msg) ==
    CASE Msg = "MyMessage" -> <<86, 60, 65, 62>>
      [] Msg = "MyOtherMessage" -> <<86, 45, 65, 45>>
      [] Msg = "Ping" -> <<80>>

\* The routing strings of the model, each with its hash, computed once.
KnownUris == {to_uri_path(n, path(m)) : n \in ServiceNames, m \in MsgTypes}
HashMemo == {<<u, HashOfStr(u)>> : u \in KnownUris}

\* hash() with `v.hash(&mut hasher)` left out: the hash of nothing.
hash_unfed(v) == SipHash13(<<>>)

\* lib.rs hash(), on a string.
hash(v) ==
    IF v \in KnownUris
    THEN (CHOOSE p \in HashMemo : p[1] = v)[2]
    ELSE HashOfStr(v)

VARIABLES
    registry,     \* the ServiceRegistry: handlers (HandlerKey -> adapter) and
                  \* service (the Arc<Svc>, with the service's name)
    added,        \* history: the message types add_handler was called with
    phase,        \* "registering" until into_handlers, then "serving"
    table,        \* the routing table into_handlers returned
    calls,        \* the in-flight calls
    invocations,  \* per message type: how often the service's on_message ran
    evals         \* a (service name, handler path) pair and the routing
                  \* strings and keys the processes computed for it

vars == <<registry, added, phase, table, calls, invocations, evals>>

\* ------------------------------------------------------------------------
\* Collaborators whose code is outside handler.rs and lib.rs
\* ------------------------------------------------------------------------

\* Status: a failure kind and a message.
Status(kind, message) == [kind |-> kind, message |-> message]

\* The values a message or a reply can hold, and the wire encoding of a value
\* of a message type: a type tag, the length of the payload, the payload.
Values == {<<7>>, <<7, 9>>}

Tag(Msg) ==
    CASE Msg = "MyMessage" -> 1
      [] Msg = "MyOtherMessage" -> 2
      [] Msg = "Ping" -> 3

to_view_bytes(Msg, value) == <<Tag(Msg), Len(value)>> \o value

\* Msg::from_body: the validated view of the body as a Msg, or invalid-payload.
from_body(Msg, body) ==
    IF /\ Len(body) >= 2
       /\ body[1] = Tag(Msg)
       /\ body[2] = Len(body) - 2
    THEN Ok([type |-> Msg, content |-> SubSeq(body, 3, Len(body))])
    ELSE Err(Status("invalid_payload", "invalid view"))

\* Request::new
RequestNew(remote_addr, headers, view) ==
    [remote_addr |-> remote_addr, headers |-> headers, view |-> view]

\* A reply value: what it holds and, when it cannot be converted to wire
\* bytes, why.
ReplyFaults == {"too_large", "encoding_error"}
Reply(value, fault) == [value |-> value, fault |-> fault]

\* Reply::try_into_body
try_into_body(reply) ==
    IF reply.fault = "none"
    THEN Ok(<<0, Len(reply.value)>> \o reply.value)
    ELSE Err(Status("internal", reply.fault))

\* The failures a service's on_message may report.
HandlerStatuses ==
    {Status("handler_failure", "boom"), Status("not_found", "no such user")}

\* Handler::on_message: what the service may return for the request msg.
on_message(msg) ==
    {Ok(Reply(msg.view.content, "none"))}
    \cup {Ok(Reply(msg.view.content, f)) : f \in ReplyFaults}
    \cup {Err(st) : st \in HandlerStatuses}

\* What the transport delivers with a call: the peer (its address and the
\* headers it sent) and the body, which is the encoding of a value of some
\* message type or a truncated encoding.
Peers ==
    {[remote_addr |-> "10.0.0.1:80", headers |-> "h1"],
     [remote_addr |-> "10.0.0.2:80", headers |-> "h2"]}
Bodies ==
    {to_view_bytes(m, <<7>>) : m \in MsgTypes}
    \cup {to_view_bytes("MyMessage", <<7, 9>>), <<1, 2, 7>>}

\* ------------------------------------------------------------------------
\* handler.rs: ServiceRegistry
\* ------------------------------------------------------------------------

EmptyMap == [k \in {} |-> None]

\* BTreeMap::entry(key).or_insert(v): an entry already there is kept.
InsertIfAbsent(map, key, v) ==
    [k \in (DOMAIN map) \cup {key} |-> IF k \in DOMAIN map THEN map[k] ELSE v]

\* A map rebuilt from the new entry alone: the entries under other keys are
\* lost.
InsertClearing(map, key, v) == [k \in {key} |-> v]

\* BTreeMap::insert: the value under key is v, every other entry is kept.
Insert(map, key, v) ==
    [k \in (DOMAIN map) \cup {key} |-> IF k = key THEN v ELSE map[k]]

\* RpcService::service_name()
service_name == registry.service.name

\* ServiceRegistry::new(service)
New(name) ==
    registry = [handlers |-> EmptyMap, service |-> [name |-> name, arc |-> 1]]

\* A PhantomHandler holding a service of its own: Arc::new of a copy of the
\* service instead of a clone of the registry's Arc.
PhantomHandlerOwnService(Msg) ==
    [handler |-> [registry.service EXCEPT !.arc = Len(added) + 2],
     msg |-> Msg, arc |-> Len(added) + 1]

\* The PhantomHandler add_handler builds, in the Arc it is stored in.
PhantomHandler(Msg) ==
    [handler |-> registry.service, msg |-> Msg, arc |-> Len(added) + 1]

\* add_handler hashing the routing string without sanitising it.
add_handler_unsanitised(Msg) ==
    /\ phase = "registering"
    /\ Len(added) < MaxAdds
    /\ LET phantom == PhantomHandler(Msg)
           uri == <<Slash>> \o service_name \o <<Slash>> \o path(Msg)
       IN  registry' = [registry EXCEPT
                !.handlers = Insert(@, hash(uri), phantom)]
    /\ added' = Append(added, Msg)
    /\ UNCHANGED <<phase, table, calls, invocations, evals>>

\* add_handler that detects a key in use and fails instead of inserting.
add_handler_checked(Msg) ==
    /\ phase = "registering"
    /\ Len(added) < MaxAdds
    /\ LET phantom == PhantomHandler(Msg)
           uri == to_uri_path(service_name, path(Msg))
       IN  /\ hash(uri) \notin DOMAIN registry.handlers
           /\ registry' = [registry EXCEPT
                    !.handlers = Insert(@, hash(uri), phantom)]
    /\ added' = Append(added, Msg)
    /\ UNCHANGED <<phase, table, calls, invocations, evals>>

\* ServiceRegistry::add_handler::<Msg>()
add_handler(Msg) ==
    /\ phase = "registering"
    /\ Len(added) < MaxAdds
    /\ LET phantom == PhantomHandler(Msg)
           uri == to_uri_path(service_name, path(Msg))
       IN  registry' = [registry EXCEPT
                !.handlers = Insert(@, hash(uri), phantom)]
    /\ added' = Append(added, Msg)
    /\ UNCHANGED <<phase, table, calls, invocations, evals>>

\* ServiceRegistry::into_handlers(self)
into_handlers ==
    /\ phase = "registering"
    /\ phase' = "serving"
    /\ table' = registry.handlers
    /\ UNCHANGED <<registry, added, calls, invocations, evals>>

\* ------------------------------------------------------------------------
\* The calls
\* ------------------------------------------------------------------------

IdleCall ==
    [pc |-> "idle", sent |-> "", uri |-> <<>>, remote_addr |-> "",
     headers |-> "", body |-> <<>>, adapter |-> None, msg |-> None,
     outcome |-> None, result |-> None, invoked |-> 0, encoded |-> 0,
     steps |-> <<>>]

\* The server's dispatch of one delivered call: the client of message type
\* Msg built the path with to_uri_path; the server hashes the path it
\* received and looks the key up in the routing table.
Dispatch(c, Msg, remote_addr, headers, body) ==
    /\ phase = "serving"
    /\ calls[c].pc = "idle"
    /\ LET uri == to_uri_path(service_name, path(Msg))
           key == hash(uri)
           call == [calls[c] EXCEPT !.sent = Msg, !.uri = uri,
                        !.remote_addr = remote_addr, !.headers = headers,
                        !.body = body]
       IN  IF key \in DOMAIN table
           THEN calls' = [calls EXCEPT ![c] =
                    [call EXCEPT !.pc = "validating",
                                 !.adapter = Some(table[key])]]
           ELSE calls' = [calls EXCEPT ![c] =
                    [call EXCEPT !.pc = "done",
                                 !.result = Some(Err(Status("not_found", "")))]]
    /\ UNCHANGED <<registry, added, phase, table, invocations, evals>>

\* ------------------------------------------------------------------------
\* handler.rs: PhantomHandler::try_handle
\* ------------------------------------------------------------------------

\* try_handle without the `?`: on_message is called whatever from_body
\* returned, on a view of the unvalidated body.
AfterFromBodyUnchecked(call, r) ==
    [call EXCEPT !.pc = "handling",
                 !.msg = Some(RequestNew(call.remote_addr, call.headers,
                            [type |-> call.adapter[1].msg,
                             content |-> call.body])),
                 !.invoked = @ + 1,
                 !.steps = @ \o <<"validate", "envelope", "handle">>]

\* try_handle calling on_message on the body as it arrived and looking at
\* from_body's result only afterwards.
AfterFromBodyHandleFirst(call, r) ==
    IF ~r.ok
    THEN [call EXCEPT !.pc = "done",
                      !.result = Some(Err(r.status)),
                      !.invoked = @ + 1,
                      !.steps = @ \o <<"envelope", "handle", "validate_failed">>]
    ELSE [call EXCEPT !.pc = "handling",
                      !.msg = Some(RequestNew(call.remote_addr, call.headers,
                                              r.val)),
                      !.invoked = @ + 1,
                      !.steps = @ \o <<"envelope", "handle", "validate">>]

\* try_handle building the request with an empty HeaderMap instead of the
\* headers it was given.
AfterFromBodyNoHeaders(call, r) ==
    IF ~r.ok
    THEN [call EXCEPT !.pc = "done",
                      !.result = Some(Err(r.status)),
                      !.steps = Append(@, "validate_failed")]
    ELSE [call EXCEPT !.pc = "handling",
                      !.msg = Some(RequestNew(call.remote_addr, "", r.val)),
                      !.invoked = @ + 1,
                      !.steps = @ \o <<"validate", "envelope", "handle">>]

\* try_handle building the request from a default view instead of the one
\* from_body returned.
AfterFromBodyDefaultView(call, r) ==
    IF ~r.ok
    THEN [call EXCEPT !.pc = "done",
                      !.result = Some(Err(r.status)),
                      !.steps = Append(@, "validate_failed")]
    ELSE [call EXCEPT !.pc = "handling",
                      !.msg = Some(RequestNew(call.remote_addr, call.headers,
                                    [r.val EXCEPT !.content = <<>>])),
                      !.invoked = @ + 1,
                      !.steps = @ \o <<"validate", "envelope", "handle">>]

\* `let view = Msg::from_body(body).await?;` has completed with r.  On Err
\* the call returns r's Status.  On Ok the request is built and on_message is
\* called with it.
AfterFromBody(call, r) ==
    IF ~r.ok
    THEN [call EXCEPT !.pc = "done",
                      !.result = Some(Err(r.status)),
                      !.steps = Append(@, "validate_failed")]
    ELSE [call EXCEPT !.pc = "handling",
                      !.msg = Some(RequestNew(call.remote_addr, call.headers,
                                              r.val)),
                      !.invoked = @ + 1,
                      !.steps = @ \o <<"validate", "envelope", "handle">>]

\* try_handle reporting every failure of the handler as internal.
AfterOnMessageMasked(call, r) ==
    IF r.ok
    THEN [call EXCEPT !.pc = "done",
                      !.result = Some(try_into_body(r.val)),
                      !.encoded = @ + 1,
                      !.steps = Append(@, "encode")]
    ELSE [call EXCEPT !.pc = "done",
                      !.result = Some(Err(Status("internal", r.status.message)))]

\* try_handle answering with an empty body when the reply cannot be encoded
\* (`.map(|reply| reply.try_into_body().unwrap_or_default())`).
AfterOnMessageSwallowed(call, r) ==
    IF r.ok
    THEN [call EXCEPT !.pc = "done",
                      !.result = Some(IF try_into_body(r.val).ok
                                      THEN try_into_body(r.val)
                                      ELSE Ok(<<>>)),
                      !.encoded = @ + 1,
                      !.steps = Append(@, "encode")]
    ELSE [call EXCEPT !.pc = "done",
                      !.result = Some(r)]

\* `.on_message(msg).await.and_then(|reply| reply.try_into_body())` has
\* completed with the handler's result r.
AfterOnMessage(call, r) ==
    IF r.ok
    THEN [call EXCEPT !.pc = "done",
                      !.result = Some(try_into_body(r.val)),
                      !.encoded = @ + 1,
                      !.steps = Append(@, "encode")]
    ELSE [call EXCEPT !.pc = "done",
                      !.result = Some(r)]

\* from_body reading from a buffer all calls share: when the body of call c
\* is invalid, every call waiting in from_body fails with it.
FromBodyDoneSharedBuffer(c) ==
    /\ calls[c].pc = "validating"
    /\ LET Msg == calls[c].adapter[1].msg
           r == from_body(Msg, calls[c].body)
           next == AfterFromBody(calls[c], r)
       IN  /\ calls' = [d \in Calls |->
                    IF d = c THEN next
                    ELSE IF ~r.ok /\ calls[d].pc = "validating"
                         THEN AfterFromBody(calls[d], r)
                         ELSE calls[d]]
           /\ invocations' =
                [invocations EXCEPT ![Msg] = @ + next.invoked - calls[c].invoked]
    /\ UNCHANGED <<registry, added, phase, table, evals>>

\* try_handle run on a detached task: dropping the call's task does not stop
\* it, and from_body completes although the call was cancelled.
FromBodyDoneDetached(c) ==
    /\ \/ calls[c].pc = "validating"
       \/ calls[c].pc = "cancelled" /\ calls[c].invoked = 0
    /\ LET Msg == calls[c].adapter[1].msg
           next == AfterFromBody(calls[c], from_body(Msg, calls[c].body))
       IN  /\ calls' = [calls EXCEPT ![c] = next]
           /\ invocations' =
                [invocations EXCEPT ![Msg] = @ + next.invoked - calls[c].invoked]
    /\ UNCHANGED <<registry, added, phase, table, evals>>

\* The pending from_body of call c completes.
FromBodyDone(c) ==
    /\ calls[c].pc = "validating"
    /\ LET Msg == calls[c].adapter[1].msg
           next == AfterFromBody(calls[c], from_body(Msg, calls[c].body))
       IN  /\ calls' = [calls EXCEPT ![c] = next]
           /\ invocations' =
                [invocations EXCEPT ![Msg] = @ + next.invoked - calls[c].invoked]
    /\ UNCHANGED <<registry, added, phase, table, evals>>

\* try_handle on a router that drops the table entry of an adapter whose
\* handler reported a failure.
OnMessageDoneEvicting(c) ==
    /\ calls[c].pc = "handling"
    /\ \E r \in on_message(calls[c].msg[1]) :
        /\ calls' = [calls EXCEPT ![c] =
                        [AfterOnMessage(calls[c], r) EXCEPT !.outcome = Some(r)]]
        /\ table' = IF r.ok THEN table
                    ELSE [k \in {j \in DOMAIN table : table[j] # calls[c].adapter[1]}
                            |-> table[k]]
    /\ UNCHANGED <<registry, added, phase, invocations, evals>>

\* The pending on_message of call c returns.
OnMessageDone(c) ==
    /\ calls[c].pc = "handling"
    /\ \E r \in on_message(calls[c].msg[1]) :
            calls' = [calls EXCEPT ![c] =
                        [AfterOnMessage(calls[c], r) EXCEPT !.outcome = Some(r)]]
    /\ UNCHANGED <<registry, added, phase, table, invocations, evals>>

\* The task of call c is dropped at one of its two suspension points.
Cancel(c) ==
    /\ calls[c].pc \in {"validating", "handling"}
    /\ calls' = [calls EXCEPT ![c].pc = "cancelled"]
    /\ UNCHANGED <<registry, added, phase, table, invocations, evals>>

\* ------------------------------------------------------------------------
\* The specification
\* ------------------------------------------------------------------------

Init ==
    /\ \E name \in ServiceNames : New(name)
    /\ added = <<>>
    /\ phase = "registering"
    /\ table = EmptyMap
    /\ calls = [c \in Calls |-> IdleCall]
    /\ invocations = [m \in MsgTypes |-> 0]
    /\ evals = [service |-> <<>>, path |-> <<>>, log |-> EmptyMap]

Next ==
    \/ \E Msg \in MsgTypes : add_handler(Msg)
    \/ into_handlers
    \/ \E c \in Calls, Msg \in MsgTypes, peer \in Peers, body \in Bodies :
            Dispatch(c, Msg, peer.remote_addr, peer.headers, body)
    \/ \E c \in Calls : FromBodyDone(c)
    \/ \E c \in Calls : OnMessageDone(c)
    \/ \E c \in Calls : Cancel(c)

Spec == Init /\ [][Next]_vars

\* ------------------------------------------------------------------------
\* The HandlerKey of a (service name, handler path) pair, computed by the
\* server and by the client
\* ------------------------------------------------------------------------

\* A process makes its next evaluation of hash(to_uri_path(service, path)).
Evaluate(slot) ==
    /\ slot \notin DOMAIN evals.log
    /\ slot[2] = 1 \/ <<slot[1], slot[2] - 1>> \in DOMAIN evals.log
    /\ LET uri == to_uri_path(evals.service, evals.path)
           done == [uri |-> uri, key |-> hash_in(slot[1], slot[2], uri)]
       IN  evals' = [evals EXCEPT !.log = Insert(@, slot, done)]
    /\ UNCHANGED <<registry, added, phase, table, calls, invocations>>

HashInit ==
    /\ \E name \in ServiceNames : New(name)
    /\ added = <<>>
    /\ phase = "registering"
    /\ table = EmptyMap
    /\ calls = [c \in Calls |-> IdleCall]
    /\ invocations = [m \in MsgTypes |-> 0]
    /\ \E n \in Strings(MaxServiceLen), p \in Strings(MaxPathLen) :
            evals = [service |-> n, path |-> p, log |-> EmptyMap]

HashNext == \E slot \in EvalSlots : Evaluate(slot)

HashSpec == HashInit /\ [][HashNext]_vars

\* ------------------------------------------------------------------------
\* Definitions the properties share
\* ------------------------------------------------------------------------

\* The message types add_handler was called with.
Registered == {added[i] : i \in 1..Len(added)}

\* hash(to_uri_path(name, path(Msg))) for every service name and message
\* type of the model, computed once.
KeyMemo ==
    [name \in ServiceNames |->
        [Msg \in MsgTypes |-> hash(to_uri_path(name, path(Msg)))]]

\* The routing string and the HandlerKey a client of Msg computes.
UriOf(Msg) == to_uri_path(service_name, path(Msg))
KeyOf(Msg) == KeyMemo[service_name][Msg]

\* The add_handler calls, by position, whose key is k, and the last of them.
AddsFor(k) == {i \in 1..Len(added) : KeyOf(added[i]) = k}
LastAddFor(k) ==
    LET S == AddsFor(k)
    IN  CHOOSE i \in S : \A j \in S : j <= i

\* try_handle was called for call c, and the adapter it was called on.
Handled(c) == calls[c].adapter # None
AdapterOf(c) == calls[c].adapter[1]

\* from_body has completed for call c.
Validated(c) == Handled(c) /\ calls[c].steps # <<>>

\* The calls whose on_message ran on the handler of Msg.
InvokedCalls(Msg) ==
    {c \in Calls : Handled(c) /\ AdapterOf(c).msg = Msg /\ calls[c].invoked > 0}

\* ------------------------------------------------------------------------
\* C1..C5
\* ------------------------------------------------------------------------

\* C1: when the body of a call fails validation in from_body, try_handle
\* returns an invalid-payload Status, on_message is not invoked for the call
\* (the per-handler counter counts only the calls whose on_message ran once)
\* and no reply is encoded.
C1_InvalidBodyStops ==
    /\ \A c \in Calls :
        (Handled(c) /\ ~from_body(AdapterOf(c).msg, calls[c].body).ok) =>
            /\ calls[c].invoked = 0
            /\ calls[c].encoded = 0
            /\ calls[c].msg = None
            /\ calls[c].pc \in {"validating", "cancelled", "done"}
            /\ calls[c].pc = "done" =>
                /\ calls[c].result # None
                /\ ~calls[c].result[1].ok
                /\ calls[c].result[1].status.kind = "invalid_payload"
    /\ \A m \in MsgTypes : invocations[m] = Cardinality(InvokedCalls(m))

C1_Witness ==
    \E c \in Calls :
        /\ Handled(c)
        /\ ~from_body(AdapterOf(c).msg, calls[c].body).ok
        /\ calls[c].pc = "done"
        /\ calls[c].result[1].status.kind = "invalid_payload"

\* C2: a request for a message type that was never registered, and whose
\* routing string no registered type shares, has no entry under its
\* HandlerKey; and a request whose HandlerKey has no entry is answered
\* not-found without any on_message being invoked.
C2_UnregisteredNotFound ==
    \A c \in Calls :
        calls[c].pc # "idle" =>
            LET key == hash(calls[c].uri)
            IN  /\ (\A m \in Registered : UriOf(m) # calls[c].uri) =>
                        key \notin DOMAIN table
                /\ key \notin DOMAIN table =>
                    /\ calls[c].pc = "done"
                    /\ calls[c].result = Some(Err(Status("not_found", "")))
                    /\ ~Handled(c)
                    /\ calls[c].invoked = 0

C2_Witness ==
    \E c \in Calls :
        /\ calls[c].pc = "done"
        /\ calls[c].sent \notin Registered
        /\ Registered # {}
        /\ calls[c].result = Some(Err(Status("not_found", "")))
        /\ \A m \in MsgTypes : invocations[m] = 0

\* C3 as stated: a request a client builds for a registered message type is
\* handled by the adapter registered for that message type and by no other.
C3_Original ==
    \A c \in Calls :
        (calls[c].pc # "idle" /\ calls[c].sent \in Registered) =>
            /\ Handled(c)
            /\ AdapterOf(c).msg = calls[c].sent

\* C3 amended: the client's key is the key add_handler stored the adapter
\* under, and the request is handled by the adapter most recently registered
\* under that key: the one of its own message type unless a later add_handler
\* for a message type with the same HandlerKey replaced it.
C3_RoutedToLastUnderKey ==
    \A c \in Calls :
        (calls[c].pc # "idle" /\ calls[c].sent \in Registered) =>
            LET k == KeyOf(calls[c].sent)
                last == LastAddFor(k)
            IN  /\ hash(calls[c].uri) = k
                /\ k \in DOMAIN table
                /\ Handled(c)
                /\ AdapterOf(c) = table[k]
                /\ AdapterOf(c).arc = last
                /\ AdapterOf(c).msg = added[last]
                /\ (\A i \in AddsFor(k) : added[i] = calls[c].sent) =>
                        AdapterOf(c).msg = calls[c].sent

C3_Witness ==
    \E c \in Calls :
        /\ calls[c].pc # "idle"
        /\ calls[c].sent \in Registered
        /\ Handled(c)
        /\ AdapterOf(c).msg = calls[c].sent
        /\ Cardinality(DOMAIN table) = 2

\* C4 as stated: two registered message types with different handler paths
\* have different HandlerKeys and the table holds an entry for each.
C4_Original ==
    \A m1, m2 \in Registered :
        path(m1) # path(m2) =>
            /\ KeyOf(m1) # KeyOf(m2)
            /\ registry.handlers[KeyOf(m1)] # registry.handlers[KeyOf(m2)]

\* C4 amended: two registered message types whose sanitised handler paths
\* differ have different HandlerKeys (no two routing strings of the model
\* collide under the hash); the table then holds a separate entry for each,
\* each entry is of a message type with that key, and it is of the message
\* type itself when no other registered type shares its key.
C4_DistinctSanitisedPaths ==
    \A m1, m2 \in Registered :
        sanitise(path(m1)) # sanitise(path(m2)) =>
            LET k1 == KeyOf(m1)
                k2 == KeyOf(m2)
            IN  /\ k1 # k2
                /\ {k1, k2} \subseteq DOMAIN registry.handlers
                /\ Cardinality(DOMAIN registry.handlers) >= 2
                /\ registry.handlers[k1] # registry.handlers[k2]
                /\ KeyOf(registry.handlers[k1].msg) = k1
                /\ (\A i \in AddsFor(k1) : added[i] = m1) =>
                        registry.handlers[k1].msg = m1
                /\ \A c \in Calls :
                    (calls[c].pc # "idle" /\ calls[c].sent = m1) =>
                        /\ Handled(c)
                        /\ AdapterOf(c) = registry.handlers[k1]

C4_Witness ==
    \E c1, c2 \in Calls :
        /\ Registered = {"MyMessage", "Ping"}
        /\ Handled(c1) /\ AdapterOf(c1).msg = "MyMessage"
        /\ calls[c1].sent = "MyMessage"
        /\ Handled(c2) /\ AdapterOf(c2).msg = "Ping"
        /\ calls[c2].sent = "Ping"

\* C5: when on_message returns a failure Status, try_handle returns that
\* Status, kind and message unchanged, and try_into_body is not executed.
C5_HandlerFailureVerbatim ==
    \A c \in Calls :
        (calls[c].outcome # None /\ ~calls[c].outcome[1].ok) =>
            /\ calls[c].pc = "done"
            /\ calls[c].result = Some(Err(calls[c].outcome[1].status))
            /\ calls[c].encoded = 0
            /\ "encode" \notin {calls[c].steps[i] : i \in 1..Len(calls[c].steps)}

C5_Witness ==
    \E c \in Calls :
        /\ calls[c].outcome = Some(Err(Status("not_found", "no such user")))
        /\ calls[c].result = Some(Err(Status("not_found", "no such user")))
        /\ calls[c].invoked = 1

\* ------------------------------------------------------------------------
\* C6..C10
\* ------------------------------------------------------------------------

\* C6: when on_message succeeds and try_into_body fails on the reply,
\* try_handle returns a Status of kind internal, whatever the cause.
C6_EncodingFailureInternal ==
    \A c \in Calls :
        (/\ calls[c].outcome # None
         /\ calls[c].outcome[1].ok
         /\ calls[c].outcome[1].val.fault # "none") =>
            /\ calls[c].pc = "done"
            /\ calls[c].encoded = 1
            /\ calls[c].result # None
            /\ ~calls[c].result[1].ok
            /\ calls[c].result[1].status.kind = "internal"

C6_Witness ==
    \E c1, c2 \in Calls :
        /\ calls[c1].outcome # None /\ calls[c1].outcome[1].ok
        /\ calls[c1].outcome[1].val.fault = "too_large"
        /\ calls[c1].result = Some(Err(Status("internal", "too_large")))
        /\ calls[c2].outcome # None /\ calls[c2].outcome[1].ok
        /\ calls[c2].outcome[1].val.fault = "encoding_error"
        /\ calls[c2].result = Some(Err(Status("internal", "encoding_error")))

\* C7: add_handler never fails, and registering again under a key replaces
\* the entry: the table has exactly one entry per key of a registered type,
\* the entry is the adapter the last add_handler call for that key created,
\* and that adapter is the one every call under the key is handled by.
C7_LastWriteWins ==
    /\ DOMAIN registry.handlers = {KeyOf(m) : m \in Registered}
    /\ Cardinality(DOMAIN registry.handlers) <= Cardinality(Registered)
    /\ \A k \in DOMAIN registry.handlers :
        LET last == LastAddFor(k)
        IN  /\ registry.handlers[k].arc = last
            /\ registry.handlers[k].msg = added[last]
    /\ \A c \in Calls :
        Handled(c) =>
            LET last == LastAddFor(hash(calls[c].uri))
            IN  /\ AdapterOf(c).arc = last
                /\ AdapterOf(c).msg = added[last]
    /\ (phase = "registering" /\ Len(added) < MaxAdds) =>
            \A m \in MsgTypes : ENABLED add_handler(m)

C7_Witness ==
    \E c \in Calls :
        /\ added = <<"MyMessage", "MyMessage">>
        /\ Cardinality(DOMAIN table) = 1
        /\ Handled(c)
        /\ AdapterOf(c).arc = 2
        /\ calls[c].pc = "done"
        /\ calls[c].result[1].ok

\* C8: when the body is the encoding of a value of the adapter's message
\* type, validation passes, and once from_body has completed on_message has
\* been invoked exactly once, with a view whose content is that value.
C8_ValidBodyReachesHandler ==
    \A c \in Calls : \A v \in Values :
        (/\ Handled(c)
         /\ calls[c].body = to_view_bytes(AdapterOf(c).msg, v)
         /\ calls[c].pc \in {"handling", "done"}) =>
            /\ calls[c].invoked = 1
            /\ calls[c].msg # None
            /\ calls[c].msg[1].view.type = AdapterOf(c).msg
            /\ calls[c].msg[1].view.content = v
            /\ calls[c].pc = "done" => calls[c].outcome # None

C8_Witness ==
    \E c \in Calls :
        /\ Handled(c)
        /\ calls[c].body = to_view_bytes(AdapterOf(c).msg, <<7, 9>>)
        /\ calls[c].pc = "done"
        /\ calls[c].invoked = 1
        /\ calls[c].msg[1].view.content = <<7, 9>>

\* What try_handle owes call c, from the call's own address, headers and
\* body, the routing table and what the call's own on_message returned.
ExpectedResult(c) ==
    LET k == hash(calls[c].uri)
    IN  IF k \notin DOMAIN table THEN Err(Status("not_found", ""))
        ELSE LET view == from_body(table[k].msg, calls[c].body)
             IN  IF ~view.ok THEN Err(view.status)
                 ELSE IF calls[c].outcome[1].ok
                      THEN try_into_body(calls[c].outcome[1].val)
                      ELSE calls[c].outcome[1]

\* C9: whatever the interleaving, and whether or not another call in flight
\* failed, a finished call's result is the one its own address, headers and
\* body and its own handler invocation determine; a call whose own body is
\* valid is never failed by validation.
C9_CallsIndependent ==
    \A c \in Calls :
        /\ calls[c].pc = "done" =>
            /\ Handled(c) /\ from_body(AdapterOf(c).msg, calls[c].body).ok =>
                    calls[c].outcome # None
            /\ calls[c].result = Some(ExpectedResult(c))
        /\ calls[c].msg # None =>
            /\ calls[c].msg[1].remote_addr = calls[c].remote_addr
            /\ calls[c].msg[1].headers = calls[c].headers

C9_Witness ==
    \E c1, c2 \in Calls :
        /\ calls[c1].pc = "done" /\ calls[c2].pc = "done"
        /\ Handled(c1) /\ Handled(c2)
        /\ AdapterOf(c1) = AdapterOf(c2)
        /\ ~calls[c1].result[1].ok
        /\ calls[c1].result[1].status.kind = "invalid_payload"
        /\ calls[c2].result[1].ok

\* C10: in every execution of a call, cancelled or not, on_message is
\* invoked at most once for it, and it is not invoked (nor does the call make
\* any other step) once the call is cancelled.
C10_AtMostOnceNotAfterCancel ==
    [][\A c \in Calls :
        /\ calls'[c].invoked <= 1
        /\ calls[c].pc = "cancelled" => calls'[c] = calls[c]
        /\ \A m \in MsgTypes :
            invocations'[m] - invocations[m] =
                Cardinality({d \in Calls :
                    /\ Handled(d) /\ AdapterOf(d).msg = m
                    /\ calls[d].invoked = 0 /\ calls'[d].invoked = 1})
      ]_vars

C10_Witness ==
    \E c1, c2 \in Calls :
        /\ calls[c1].pc = "cancelled" /\ calls[c1].invoked = 0
        /\ Handled(c1)
        /\ from_body(AdapterOf(c1).msg, calls[c1].body).ok
        /\ calls[c2].pc = "cancelled" /\ calls[c2].invoked = 1

\* ------------------------------------------------------------------------
\* C11..C18
\* ------------------------------------------------------------------------

\* A u64 in the range of HandlerKey.
IsU64(k) == DOMAIN k = 1..4 /\ \A i \in 1..4 : k[i] \in 0..(Limb - 1)

C12_TableFrozenWhileServing ==
    /\ [](phase = "serving" =>
            /\ table = registry.handlers
            /\ DOMAIN table = {KeyOf(m) : m \in Registered}
            /\ \A k \in DOMAIN table :
                LET last == LastAddFor(k)
                IN  table[k] = [handler |-> registry.service,
                                msg |-> added[last], arc |-> last])
    /\ [][phase = "serving" =>
            /\ table' = table
            /\ registry' = registry
            /\ added' = added
            /\ phase' = "serving"]_vars

C12_Witness ==
    \E c1, c2 \in Calls :
        /\ phase = "serving"
        /\ Cardinality(DOMAIN table) = 2
        /\ calls[c1].pc = "done" /\ Handled(c1) /\ ~calls[c1].result[1].ok
        /\ calls[c2].pc = "done" /\ Handled(c2) /\ calls[c2].result[1].ok
        /\ table = registry.handlers

\* The steps of one try_handle call, in the order the code takes them, and
\* the points at which a call can be.
StepOrder == <<"validate", "envelope", "handle", "encode">>
StepPrefixes ==
    {<<>>, <<"validate_failed">>, SubSeq(StepOrder, 1, 3), StepOrder}

\* C13: in every call the steps taken so far are validate, envelope, handle,
\* encode in this order: on_message has started only if from_body succeeded
\* on the call's body, and try_into_body only if on_message returned Ok.
C13_StepsInOrder ==
    \A c \in Calls :
        /\ calls[c].steps \in StepPrefixes
        /\ calls[c].invoked = (IF Len(calls[c].steps) >= 3 THEN 1 ELSE 0)
        /\ calls[c].encoded = (IF Len(calls[c].steps) = 4 THEN 1 ELSE 0)
        /\ calls[c].invoked > 0 =>
            /\ Handled(c)
            /\ from_body(AdapterOf(c).msg, calls[c].body).ok
            /\ calls[c].msg =
                Some(RequestNew(calls[c].remote_addr, calls[c].headers,
                        from_body(AdapterOf(c).msg, calls[c].body).val))
        /\ calls[c].outcome # None => calls[c].invoked > 0
        /\ calls[c].encoded > 0 =>
            /\ calls[c].outcome # None
            /\ calls[c].outcome[1].ok
        /\ calls[c].steps = <<"validate_failed">> =>
            /\ calls[c].pc = "done"
            /\ calls[c].msg = None

C13_Witness ==
    \E c1, c2 \in Calls :
        /\ calls[c1].pc = "done" /\ calls[c1].steps = StepOrder
        /\ calls[c1].result[1].ok
        /\ calls[c2].pc = "done" /\ calls[c2].steps = SubSeq(StepOrder, 1, 3)
        /\ ~calls[c2].outcome[1].ok

\* Positions i < j of add_handler calls for two different message types with
\* the same HandlerKey, j being the last call for that key.
Collisions ==
    {ij \in (1..Len(added)) \X (1..Len(added)) :
        /\ ij[1] < ij[2]
        /\ added[ij[1]] # added[ij[2]]
        /\ KeyOf(added[ij[1]]) = KeyOf(added[ij[2]])
        /\ ij[2] = LastAddFor(KeyOf(added[ij[2]]))}

\* C14: when add_handler is called for a message type whose HandlerKey an
\* adapter of another type already has, the call is possible and replaces
\* that adapter: the key has one entry, the later type's adapter, and
\* requests addressed to either type are handled by it.
C14_CollisionReplacesSilently ==
    /\ (phase = "registering" /\ Len(added) < MaxAdds) =>
        \A m \in MsgTypes :
            (\E i \in 1..Len(added) :
                added[i] # m /\ KeyOf(added[i]) = KeyOf(m)) =>
                    ENABLED add_handler(m)
    /\ \A ij \in Collisions :
        LET k == KeyOf(added[ij[2]])
        IN  /\ registry.handlers[k].msg = added[ij[2]]
            /\ registry.handlers[k].arc = ij[2]
            /\ \A k2 \in DOMAIN registry.handlers :
                registry.handlers[k2].arc # ij[1]
            /\ \A c \in Calls :
                (calls[c].pc # "idle"
                    /\ calls[c].sent \in {added[ij[1]], added[ij[2]]}) =>
                        /\ Handled(c)
                        /\ AdapterOf(c).msg = added[ij[2]]
                        /\ AdapterOf(c).arc = ij[2]

C14_Witness ==
    \E c1, c2 \in Calls :
        /\ added = <<"MyMessage", "MyOtherMessage">>
        /\ calls[c1].sent = "MyMessage" /\ calls[c1].pc = "done"
        /\ calls[c2].sent = "MyOtherMessage" /\ calls[c2].pc = "done"
        /\ AdapterOf(c1) = AdapterOf(c2)
        /\ AdapterOf(c1).msg = "MyOtherMessage"
        /\ calls[c2].result[1].ok

\* The characters a URI path segment may hold (RFC 3986, pchar): letters,
\* digits, "-._~", "%", "!$&'()*+,;=", ":" and "@".
PathSegmentChars ==
    (65..90) \cup (97..122) \cup (48..57) \cup {45, 46, 95, 126} \cup {37}
    \cup {33, 36, 38, 39, 40, 41, 42, 43, 44, 59, 61} \cup {58, 64}

\* What sanitise makes of one character.
Sanitised(ch) == IF ch \in {Lt, Gt} THEN Dash ELSE ch

\* The routing string is "/" + service + "/" + path with each character of
\* service and path replaced by what keep(_) makes of it.
FormatOf(uri, keep(_)) ==
    LET n == Len(evals.service)
        m == Len(evals.path)
    IN  /\ Len(uri) = n + m + 2
        /\ uri[1] = Slash
        /\ uri[n + 2] = Slash
        /\ \A i \in 1..n : uri[1 + i] = keep(evals.service[i])
        /\ \A j \in 1..m : uri[n + 2 + j] = keep(evals.path[j])

\* C15 as stated: the two segments of the routing string hold no character
\* that is invalid in a path segment.
C15_Original ==
    \A slot \in DOMAIN evals.log :
        LET uri == evals.log[slot].uri
            n == Len(evals.service)
        IN  \A i \in (2..(n + 1)) \cup ((n + 3)..Len(uri)) :
                uri[i] \in PathSegmentChars

\* C15 amended: to_uri_path(s, p) is "/" + sanitise(s) + "/" + sanitise(p),
\* where sanitise replaces '<' and '>', and only them, with '-': the result
\* holds no '<' and no '>', and every other character of s and p, valid in a
\* path segment or not, is kept, in order.
C15_OnlyAngleBracketsReplaced ==
    \A slot \in DOMAIN evals.log :
        LET uri == evals.log[slot].uri
        IN  /\ FormatOf(uri, Sanitised)
            /\ \A i \in 1..Len(uri) : uri[i] \notin {Lt, Gt}
            /\ uri = <<Slash>> \o sanitise(evals.service)
                        \o <<Slash>> \o sanitise(evals.path)

C15_Witness ==
    /\ evals.service = <<Lt>>
    /\ evals.path = <<32, Gt>>
    /\ <<"client", 1>> \in DOMAIN evals.log
    /\ evals.log[<<"client", 1>>].uri = <<Slash, Dash, Slash, 32, Dash>>

\* C16: when from_body, on_message and try_into_body all succeed, the result
\* of try_handle is Ok of the bytes try_into_body made of the reply the
\* handler returned; and the request on_message was given holds the address
\* and the headers try_handle was called with (and the validated view).
C16_ReplyBytesAndEnvelope ==
    \A c \in Calls :
        /\ (/\ calls[c].pc = "done"
            /\ calls[c].outcome # None
            /\ calls[c].outcome[1].ok
            /\ try_into_body(calls[c].outcome[1].val).ok) =>
                /\ calls[c].result # None
                /\ calls[c].result[1].ok
                /\ calls[c].result[1].val =
                        try_into_body(calls[c].outcome[1].val).val
                /\ calls[c].result[1].val =
                        <<0, Len(calls[c].outcome[1].val.value)>>
                            \o calls[c].outcome[1].val.value
        /\ calls[c].invoked > 0 =>
                /\ calls[c].msg # None
                /\ calls[c].msg[1].remote_addr = calls[c].remote_addr
                /\ calls[c].msg[1].headers = calls[c].headers
                /\ calls[c].msg[1].view.content =
                        SubSeq(calls[c].body, 3, Len(calls[c].body))

C16_Witness ==
    \E c1, c2 \in Calls :
        /\ calls[c1].pc = "done" /\ calls[c2].pc = "done"
        /\ calls[c1].result[1].ok /\ calls[c2].result[1].ok
        /\ calls[c1].result[1].val = <<0, 2, 7, 9>>
        /\ calls[c2].result[1].val = <<0, 1, 7>>
        /\ calls[c1].msg[1].remote_addr = "10.0.0.1:80"
        /\ calls[c1].msg[1].headers = "h1"
        /\ calls[c2].msg[1].remote_addr = "10.0.0.2:80"
        /\ calls[c2].msg[1].headers = "h2"

\* C17: a call of add_handler changes the entry under the key it computes
\* and nothing else of the registry: the entries under all other keys are
\* kept as they were, no key but this one is added, the number of entries
\* grows by at most one, and after n calls there are at most n entries.
C17_AddHandlerFrame ==
    /\ [](Cardinality(DOMAIN registry.handlers) <= Len(added))
    /\ [][added' # added =>
            LET Msg == added'[Len(added')]
                k == KeyOf(Msg)
                before == registry.handlers
                after == registry'.handlers
            IN  /\ Len(added') = Len(added) + 1
                /\ DOMAIN after = (DOMAIN before) \cup {k}
                /\ \A k2 \in (DOMAIN before) \ {k} : after[k2] = before[k2]
                /\ after[k].msg = Msg
                /\ Cardinality(DOMAIN after) <= Cardinality(DOMAIN before) + 1
                /\ registry'.service = registry.service
                /\ UNCHANGED <<phase, table, calls, invocations>>]_vars

C17_Witness ==
    /\ added = <<"MyMessage", "Ping">>
    /\ Cardinality(DOMAIN registry.handlers) = 2
    /\ registry.handlers[KeyOf("MyMessage")].arc = 1
    /\ registry.handlers[KeyOf("Ping")].arc = 2

\* C18: the registry's service is at all times the instance it was built
\* with, and every adapter, in the registry, in the routing table and in
\* every call, whatever its message type, holds that same instance.
C18_OneSharedService ==
    /\ [](/\ registry.service.arc = 1
          /\ registry.service.name \in ServiceNames
          /\ \A k \in DOMAIN registry.handlers :
                registry.handlers[k].handler = registry.service
          /\ \A k \in DOMAIN table : table[k].handler = registry.service
          /\ \A c \in Calls :
                Handled(c) => AdapterOf(c).handler = registry.service)
    /\ [][registry'.service = registry.service]_vars

C18_Witness ==
    \E c1, c2 \in Calls :
        /\ Cardinality(DOMAIN table) = 2
        /\ calls[c1].pc = "handling" /\ calls[c2].pc = "handling"
        /\ AdapterOf(c1).msg # AdapterOf(c2).msg
        /\ AdapterOf(c1).arc # AdapterOf(c2).arc
        /\ AdapterOf(c1).handler = AdapterOf(c2).handler
        /\ AdapterOf(c1).handler = registry.service
====
